---- MODULE Spec2Model ----
(***************************************************************************)
(* PatchupPDF upload backend (src/server.js).                              *)
(*                                                                         *)
(* The file holds two revisions of the POST /upload route handler: the     *)
(* first one (lines 95-230) stores the parsed AI answer as one document,   *)
(* the validating one (lines 344-548) validates it and batch-writes one    *)
(* document per patch entry.  A request is served by one of them.          *)
(*                                                                         *)
(* Strings are sequences of one-character strings.  The character "J"      *)
(* stands for the text of one complete JSON document; the value that text  *)
(* denotes is carried next to the text (aiDoc).  Every other character is  *)
(* itself.                                                                 *)
(***************************************************************************)
EXTENDS Integers, Sequences, FiniteSets, TLC

VARIABLES
  pc,                  \* where each request's handler is suspended
  handler,             \* "first" | "validating": the revision serving it
  hasFile,             \* req.file is set (multer stored the upload)
  fileExists,          \* the temporary file is still on disk
  rawText,             \* result.response.text()
  aiDoc,               \* the JSON value the "J" of rawText denotes
  extractedText,       \* let extractedText (after the code-fence step)
  extractedData,       \* let extractedData (JSON.parse result)
  sanitizedMainArtist, \* const sanitizedMainArtist
  batch,               \* db.batch(): the batch.set calls in order
  writeCount,          \* let writeCount
  error,               \* the error the outer catch block holds
  store,               \* Firestore: <<collection, id>> -> document data
  responses,           \* the responses sent on res, in order
  unlinks,             \* outcome of every fs.unlink attempt, in order
  writes,              \* persistence writes attempted (docRef.set / batch.commit)
  commitOutcome,       \* "none" | "ok" | "fail": how the write settled
  aiOutcome,           \* "none" | "ok" | "uploadFail" | "generateFail"
  sendThrows,          \* number of res.json calls that threw
  rejected             \* the handler's promise rejected (uncaught throw)

vars == <<pc, handler, hasFile, fileExists, rawText, aiDoc, extractedText,
          extractedData, sanitizedMainArtist, batch, writeCount, error, store,
          responses, unlinks, writes, commitOutcome, aiOutcome, sendThrows,
          rejected>>

(***************************************************************************)
(* Bounds                                                                  *)
(***************************************************************************)
MaxRows == 3        \* longest patch_list_table the AI answers with
MaxMid == 4         \* longest text between the fence fragments
MaxArtistLen == 4   \* longest enumerated main_artist

Requests == {"r1", "r2"}

(***************************************************************************)
(* Characters and strings                                                  *)
(***************************************************************************)
Letters == {"a","b","c","d","e","f","g","h","i","j","k","l","m","n","o","p",
            "q","r","s","t","u","v","w","x","y","z",
            "A","B","C","D","E","F","G","H","I","J","K","L","M","N","O","P",
            "Q","R","S","T","U","V","W","X","Y","Z"}
Digits == {"0","1","2","3","4","5","6","7","8","9"}

\* \s of a JavaScript regular expression (the members the model uses)
IsSpace(c) == c \in {" ", "\n", "\t"}

\* [a-zA-Z0-9_]
IsWordChar(c) == c \in Letters \cup Digits \cup {"_"}

RECURSIVE StringsUpTo(_, _)
StringsUpTo(alphabet, n) ==
  IF n = 0 THEN {<<>>}
  ELSE LET shorter == StringsUpTo(alphabet, n - 1)
       IN  shorter \cup {Append(s, c) : s \in shorter, c \in alphabet}

AllSpace(s, from, to) == \A i \in from..to : IsSpace(s[i])

(***************************************************************************)
(* JSON values                                                             *)
(***************************************************************************)
Undefined == [t |-> "undefined"]
Null == [t |-> "null"]
Str(s) == [t |-> "str", v |-> s]
Num(n) == [t |-> "num", v |-> n]
Arr(a) == [t |-> "arr", v |-> a]
Obj(o) == [t |-> "obj", v |-> o]

\* a value that `const { k } = value` or `value.k` read from throws on
IsNullish(x) == x.t \in {"null", "undefined"}

\* property read: value[k]; undefined when the key is absent
Get(x, k) == IF x.t = "obj" /\ k \in DOMAIN x.v THEN x.v[k] ELSE Undefined

\* !x is false
Truthy(x) ==
  CASE x.t = "undefined" -> FALSE
    [] x.t = "null" -> FALSE
    [] x.t = "str" -> x.v # <<>>
    [] x.t = "num" -> x.v # 0
    [] OTHER -> TRUE

RECURSIVE DecimalDigits(_)
DecimalDigits(n) ==
  LET d == <<"0","1","2","3","4","5","6","7","8","9">>[(n % 10) + 1]
  IN  IF n < 10 THEN <<d>> ELSE Append(DecimalDigits(n \div 10), d)

\* String(x) for the values a channelNumber takes
StringOf(x) ==
  CASE x.t = "str" -> x.v
    [] x.t = "num" -> DecimalDigits(x.v)
    [] x.t = "null" -> <<"n","u","l","l">>
    [] OTHER -> <<"?">>

(***************************************************************************)
(* The code-fence step: extractedText.match(codeBlockRegex)                *)
(*   /^```json\s*([\s\S]*?)\s*```$/                                        *)
(***************************************************************************)
\* the backtick, which a TLA+ string cannot hold, is written as an apostrophe
Tick == "'"
FenceOpen == <<Tick, Tick, Tick, "j", "s", "o", "n">>
FenceClose == <<Tick, Tick, Tick>>

HasPrefix(s, p) == Len(s) >= Len(p) /\ SubSeq(s, 1, Len(p)) = p

\* \s*```$ matched at position i of text (i may be Len(text)+1)
TailMatches(text, i) ==
  /\ i + 2 <= Len(text)
  /\ SubSeq(text, Len(text) - 2, Len(text)) = FenceClose
  /\ AllSpace(text, i, Len(text) - 3)

\* The ways the pattern matches the whole text: k characters taken by the
\* first \s*, g characters by the capture group.
FenceMatches(text) ==
  IF ~HasPrefix(text, FenceOpen) THEN {}
  ELSE LET base == Len(FenceOpen)
           n == Len(text) - base
       IN  {m \in (0..n) \X (0..n) :
              /\ base + m[1] + m[2] <= Len(text)
              /\ AllSpace(text, base + 1, base + m[1])
              /\ TailMatches(text, base + m[1] + m[2] + 1)}

\* The match a backtracking engine reports: the first \s* is greedy (longest
\* first), the group is lazy (shortest first).  <<>> stands for null.
codeBlockMatch(text) ==
  LET ms == FenceMatches(text)
  IN  IF ms = {} THEN <<>>
      ELSE LET k == CHOOSE k \in {m[1] : m \in ms} :
                      \A m \in ms : m[1] <= k
               g == CHOOSE g \in {m[2] : m \in {mm \in ms : mm[1] = k}} :
                      \A m \in {mm \in ms : mm[1] = k} : g <= m[2]
               base == Len(FenceOpen)
           IN  <<SubSeq(text, base + k + 1, base + k + g)>>

\* if (match && match[1]) extractedText = match[1];  the empty string is falsy
unwrapCodeFenceNoGuard(text) ==
  LET match == codeBlockMatch(text)
  IN  IF match # <<>> THEN match[1] ELSE text

unwrapCodeFence(text) ==
  LET match == codeBlockMatch(text)
  IN  IF match # <<>> /\ match[1] # <<>> THEN match[1] ELSE text

(***************************************************************************)
(* JSON.parse: optional white space, one document, optional white space;   *)
(* anything else is a SyntaxError.                                         *)
(***************************************************************************)
JsonParses(text) ==
  \E i \in 1..Len(text) :
    /\ text[i] = "J"
    /\ AllSpace(text, 1, i - 1)
    /\ AllSpace(text, i + 1, Len(text))

(***************************************************************************)
(* main_artist.replace(/\s+/g, '_').replace(/[^a-zA-Z0-9_]/g, '')           *)
(***************************************************************************)
\* s.replace(/\s+/g, '_'): scanning from i, each maximal run becomes one "_"
RECURSIVE ReplaceSpaceRuns(_, _)
ReplaceSpaceRuns(s, i) ==
  IF i > Len(s) THEN <<>>
  ELSE IF IsSpace(s[i])
       THEN LET run == CHOOSE j \in i..Len(s) :
                         /\ AllSpace(s, i, j)
                         /\ (j = Len(s) \/ ~IsSpace(s[j + 1]))
            IN  <<"_">> \o ReplaceSpaceRuns(s, run + 1)
       ELSE <<s[i]>> \o ReplaceSpaceRuns(s, i + 1)

\* s.replace(/\s/g, '_'): every white-space character becomes "_"
ReplaceEachSpace(s) == [i \in 1..Len(s) |-> IF IsSpace(s[i]) THEN "_" ELSE s[i]]

\* s.replace(/[^a-zA-Z0-9_]/g, '')
DeleteNonWord(s) == SelectSeq(s, IsWordChar)

sanitizeEachSpace(mainArtist) == DeleteNonWord(ReplaceEachSpace(mainArtist))

sanitize(mainArtist) == DeleteNonWord(ReplaceSpaceRuns(mainArtist, 1))

(***************************************************************************)
(* What the AI service answers with                                        *)
(***************************************************************************)
EntryFull ==
  Obj([channelNumber |-> Num(1), micOrDi |-> Str(<<"S","M">>),
       patchName |-> Str(<<"K">>), commentsOrStand |-> Str(<<"b">>)])
\* its channelNumber has the string form of EntryFull's
EntrySameId ==
  Obj([channelNumber |-> Str(<<"1">>), micOrDi |-> Str(<<"D","I">>),
       patchName |-> Str(<<"B">>), commentsOrStand |-> Str(<<>>)])
\* patchName and commentsOrStand are missing
EntryPartial == Obj([channelNumber |-> Num(2), micOrDi |-> Str(<<"D","I">>)])
\* every field present and falsy
EntryFalsy ==
  Obj([channelNumber |-> Num(0), micOrDi |-> Str(<<>>),
       patchName |-> Str(<<>>), commentsOrStand |-> Null])

\* the elements a patch_list_table is made of; null is a JSON array element
Entries == {EntryFull, EntrySameId, EntryPartial, EntryFalsy, Null}

Tables == StringsUpTo(Entries, MaxRows)

ArtistFooB == <<"F","o"," ","B">>
ArtistBangs == <<"!","!","!">>
MainArtists == {Undefined, Null, Str(<<>>), Str(ArtistBangs), Str(ArtistFooB)}
PatchListTables == {Undefined, Null} \cup {Arr(t) : t \in Tables}

\* the object { main_artist: a, patch_list_table: p }; Undefined = key absent
MkDoc(a, p) ==
  LET val == [main_artist |-> a, patch_list_table |-> p]
  IN  Obj([k \in {f \in {"main_artist", "patch_list_table"} : val[f] # Undefined}
             |-> val[k]])

\* the JSON documents: null, or an object with either key present or not
Docs == {Null} \cup {MkDoc(a, p) : a \in MainArtists, p \in PatchListTables}

TextBare == <<"J">>
TextFenced == FenceOpen \o <<"\n", "J", "\n">> \o FenceClose
TextPadded == <<" ", "J", "\n">>
TextProse == <<"H", "i", " ", "J">>
TextNotJson == <<"n", "o">>
TextEmptyFence == FenceOpen \o <<"\n", "\n">> \o FenceClose
TextFenceThenNewline == TextFenced \o <<"\n">>

DocTexts == {TextBare, TextFenced, TextPadded, TextProse, TextFenceThenNewline}
PlainTexts == {TextNotJson, TextEmptyFence}

\* <<text, document the "J" in it denotes>>
AIResponses == (DocTexts \X Docs) \cup (PlainTexts \X {Null})

(***************************************************************************)
(* Responses and errors                                                    *)
(***************************************************************************)
Err(name) == [t |-> "error", v |-> name]
TypeError == Err("TypeError")
SendError == Err("SendError")

Resp(status, message, detail) ==
  [status |-> status, message |-> message, detail |-> detail]

RespNoFile == Resp(400, "File upload failed. No file provided.", Undefined)
RespInvalidJson == Resp(500, "Invalid JSON format in extracted data.", Undefined)
RespMissing ==
  Resp(400, "Extracted data is missing required fields: main_artist or patch_list_table.",
       Undefined)
RespNoValid ==
  Resp(400, "No valid patch entries found in patch_list_table.", Undefined)
RespSuccess(data) == Resp(200, "File uploaded and processed successfully.", data)
RespSaving(e) == Resp(500, "Error saving data to Firestore.", e)
RespProcessing(e) == Resp(500, "Error processing the PDF", e)

\* How a synchronous stretch of the handler ends: where it suspends next,
\* what it sent, how many res.json calls threw, the error thrown to the
\* outer catch, whether the handler's promise rejected.
Finished(sent, n) ==
  [next |-> "done", sent |-> sent, threw |-> n, err |-> Undefined, rej |-> FALSE]
ToOuterCatch(e, n) ==
  [next |-> "catchUnlink", sent |-> <<>>, threw |-> n, err |-> e, rej |-> FALSE]
Rejects(n) ==
  [next |-> "done", sent |-> <<>>, threw |-> n, err |-> Undefined, rej |-> TRUE]
Suspends(at) ==
  [next |-> at, sent |-> <<>>, threw |-> 0, err |-> Undefined, rej |-> FALSE]

\* res.status(..).json(resp) outside every try block; sendOk: it does not throw
BareSend(resp, sendOk) == IF sendOk THEN Finished(<<resp>>, 0) ELSE Rejects(1)

\* res.status(..).json(resp) inside the outer try block only
OuterSend(resp, sendOk) ==
  IF sendOk THEN Finished(<<resp>>, 0) ELSE ToOuterCatch(SendError, 1)

\* catch (firestoreError) { res.status(500).json(..) }, n throws so far
InnerCatch(e, n, sendOk) ==
  IF sendOk THEN Finished(<<RespSaving(e)>>, n) ELSE ToOuterCatch(SendError, n + 1)

\* res.status(..).json(resp) inside the inner try block
InnerSend(resp, sendOk, catchSendOk) ==
  IF sendOk THEN Finished(<<resp>>, 0) ELSE InnerCatch(SendError, 1, catchSendOk)

(***************************************************************************)
(* Firestore                                                               *)
(***************************************************************************)
ExtractedDataCollection == <<"extractedData">>

\* docRef.set(data): create or overwrite the document at ref
SetDoc(st, ref, data) ==
  [p \in DOMAIN st \cup {ref} |-> IF p = ref THEN data ELSE st[p]]

\* batch.commit(): the batch's set calls applied in order, atomically
RECURSIVE ApplyBatch(_, _, _)
ApplyBatch(st, b, i) ==
  IF i > Len(b) THEN st
  ELSE ApplyBatch(SetDoc(st, b[i].ref, b[i].data), b, i + 1)

\* db.collection(name) and .doc(id) build the reference <<name, id>> for any
\* name and id: the handlers check neither.
\* db.collection('extractedData').doc(): a reference with a fresh id
AutoRef(st) ==
  <<ExtractedDataCollection, <<"#">> \o DecimalDigits(Cardinality(DOMAIN st))>>

(***************************************************************************)
(* The validating handler's synchronous stretch, lines 416-500             *)
(***************************************************************************)
PatchFields == {"channelNumber", "micOrDi", "patchName", "commentsOrStand"}

\* the forEach callback's skip condition (lines 468-479)
IsSkipped(patch) == \E f \in PatchFields : Get(patch, f) = Undefined

\* batch.set(docRef, {...}) of the callback (lines 482-490)
BatchSet(collection, patch) ==
  [ref  |-> <<collection, StringOf(Get(patch, "channelNumber"))>>,
   data |-> Obj([f \in PatchFields |-> Get(patch, f)])]

\* patch_list_table.forEach(...): the batch built so far and whether the
\* callback threw (destructuring a null element throws a TypeError, which
\* ends the loop)
RECURSIVE ForEachPatch(_, _, _, _)
ForEachPatch(table, i, collection, acc) ==
  IF i > Len(table) THEN acc
  ELSE IF IsNullish(table[i]) THEN [acc EXCEPT !.threw = TRUE]
  ELSE IF IsSkipped(table[i]) THEN ForEachPatch(table, i + 1, collection, acc)
  ELSE ForEachPatch(table, i + 1, collection,
         [acc EXCEPT !.batch = Append(@, BatchSet(collection, table[i])),
                     !.writeCount = @ + 1])

\* if (!main_artist && !patch_list_table): the check with the wrong connective
MissingRequiredBoth(data) ==
  /\ ~Truthy(Get(data, "main_artist"))
  /\ ~Truthy(Get(data, "patch_list_table"))

\* if (!main_artist || !patch_list_table)   (line 436)
MissingRequired(data) ==
  \/ ~Truthy(Get(data, "main_artist"))
  \/ ~Truthy(Get(data, "patch_list_table"))

\* Lines 431-493: how the stretch ends before the writeCount check ("threw":
\* a TypeError reached the inner catch; "missing"; "built") and the locals it
\* leaves behind.
Validate(data) ==
  LET none == [end |-> "threw", key |-> <<>>, batch |-> <<>>, writeCount |-> 0]
      main_artist == Get(data, "main_artist")
      patch_list_table == Get(data, "patch_list_table")
      key == sanitize(main_artist.v)
      loop == ForEachPatch(patch_list_table.v, 1, key,
                           [batch |-> <<>>, writeCount |-> 0, threw |-> FALSE])
  IN  IF IsNullish(data) THEN none              \* destructuring null throws
      ELSE IF MissingRequired(data) THEN [none EXCEPT !.end = "missing"]
      ELSE IF main_artist.t # "str" THEN none   \* .replace is not a function
      ELSE IF patch_list_table.t # "arr"        \* .forEach is not a function
           THEN [none EXCEPT !.key = key]
      ELSE [end |-> IF loop.threw THEN "threw" ELSE "built", key |-> key,
            batch |-> loop.batch, writeCount |-> loop.writeCount]

\* How the stretch from JSON.parse to batch.commit() ends (lines 416-503)
ValidatingOutcome(v, sendOk, catchSendOk) ==
  CASE v.end = "threw" -> InnerCatch(TypeError, 0, sendOk)
    [] v.end = "missing" -> InnerSend(RespMissing, sendOk, catchSendOk)
    [] v.end = "built" /\ v.writeCount = 0 ->
         InnerSend(RespNoValid, sendOk, catchSendOk)
    [] OTHER -> Suspends("commit")

\* Lines 508-522 with the try/catch around fs.unlink left out: a failed
\* deletion reaches the inner catch
SuccessResponseUnlinkThrows(data, unlinkOk, sendOk, catchSendOk) ==
  IF unlinkOk THEN InnerSend(RespSuccess(data), sendOk, catchSendOk)
  ELSE InnerCatch(Err("UnlinkError"), 0, sendOk)

\* Lines 508-522: try { await fs.unlink } catch { log }; res.status(200).json
SuccessResponse(data, unlinkOk, sendOk, catchSendOk) ==
  InnerSend(RespSuccess(data), sendOk, catchSendOk)

(***************************************************************************)
(* State                                                                   *)
(***************************************************************************)
InitWith(pc0, rawText0, extractedData0) ==
  /\ pc = pc0
  /\ handler = [r \in Requests |-> "validating"]
  /\ hasFile = [r \in Requests |-> FALSE]
  /\ fileExists = [r \in Requests |-> FALSE]
  /\ rawText = [r \in Requests |-> IF r = "r1" THEN rawText0 ELSE <<>>]
  /\ aiDoc = [r \in Requests |-> Null]
  /\ extractedText = [r \in Requests |-> <<>>]
  /\ extractedData =
       [r \in Requests |-> IF r = "r1" THEN extractedData0 ELSE Undefined]
  /\ sanitizedMainArtist = [r \in Requests |-> <<>>]
  /\ batch = [r \in Requests |-> <<>>]
  /\ writeCount = [r \in Requests |-> 0]
  /\ error = [r \in Requests |-> Undefined]
  /\ store = [p \in {} |-> Null]
  /\ responses = [r \in Requests |-> <<>>]
  /\ unlinks = [r \in Requests |-> <<>>]
  /\ writes = [r \in Requests |-> 0]
  /\ commitOutcome = [r \in Requests |-> "none"]
  /\ aiOutcome = [r \in Requests |-> "none"]
  /\ sendThrows = [r \in Requests |-> 0]
  /\ rejected = [r \in Requests |-> FALSE]

\* one request has arrived; the other never does
OnlyFirst(at) == [r \in Requests |-> IF r = "r1" THEN at ELSE "absent"]

Init == InitWith(OnlyFirst("new"), <<>>, Undefined)

\* the end of a synchronous stretch
Finish(r, out) ==
  /\ pc' = [pc EXCEPT ![r] = out.next]
  /\ responses' = [responses EXCEPT ![r] = @ \o out.sent]
  /\ sendThrows' = [sendThrows EXCEPT ![r] = @ + out.threw]
  /\ error' = [error EXCEPT ![r] = IF out.next = "catchUnlink" THEN out.err ELSE @]
  /\ rejected' = [rejected EXCEPT ![r] = out.rej]

\* await fs.unlink(mediaPath): it can succeed only while the file exists
UnlinkOutcomes(r) == IF fileExists[r] THEN BOOLEAN ELSE {FALSE}

Unlink(r, ok) ==
  /\ unlinks' = [unlinks EXCEPT ![r] = Append(@, IF ok THEN "ok" ELSE "fail")]
  /\ fileExists' = [fileExists EXCEPT ![r] = @ /\ ~ok]

(***************************************************************************)
(* The handler, one action per stretch between awaits                      *)
(***************************************************************************)
\* Lines 95-102 / 344-352: the request reaches a handler
Receive(r) ==
  /\ pc[r] = "new"
  /\ \E h \in {"first", "validating"}, file \in BOOLEAN, sendOk \in BOOLEAN :
       /\ handler' = [handler EXCEPT ![r] = h]
       /\ hasFile' = [hasFile EXCEPT ![r] = file]
       /\ fileExists' = [fileExists EXCEPT ![r] = file]
       /\ Finish(r, IF file THEN Suspends("uploadFile")
                    ELSE BareSend(RespNoFile, sendOk))
  /\ UNCHANGED <<rawText, aiDoc, extractedText, extractedData,
                 sanitizedMainArtist, batch, writeCount, store, unlinks,
                 writes, commitOutcome, aiOutcome>>

\* await fileManager.uploadFile(...) resolves (lines 110 / 359)
UploadFileResolves(r) ==
  /\ pc[r] = "uploadFile"
  /\ pc' = [pc EXCEPT ![r] = "generateContent"]
  /\ UNCHANGED <<handler, hasFile, fileExists, rawText, aiDoc, extractedText,
                 extractedData, sanitizedMainArtist, batch, writeCount, error,
                 store, responses, unlinks, writes, commitOutcome, aiOutcome,
                 sendThrows, rejected>>

\* await fileManager.uploadFile(...) rejects: the outer catch runs
UploadFileRejects(r) ==
  /\ pc[r] = "uploadFile"
  /\ pc' = [pc EXCEPT ![r] = "catchUnlink"]
  /\ error' = [error EXCEPT ![r] = Err("UploadError")]
  /\ aiOutcome' = [aiOutcome EXCEPT ![r] = "uploadFail"]
  /\ UNCHANGED <<handler, hasFile, fileExists, rawText, aiDoc, extractedText,
                 extractedData, sanitizedMainArtist, batch, writeCount,
                 store, responses, unlinks, writes, commitOutcome,
                 sendThrows, rejected>>

\* await modelInstance.generateContent(...) rejects (lines 147 / 393)
GenerateContentRejects(r) ==
  /\ pc[r] = "generateContent"
  /\ pc' = [pc EXCEPT ![r] = "catchUnlink"]
  /\ error' = [error EXCEPT ![r] = Err("GenerateError")]
  /\ aiOutcome' = [aiOutcome EXCEPT ![r] = "generateFail"]
  /\ UNCHANGED <<handler, hasFile, fileExists, rawText, aiDoc, extractedText,
                 extractedData, sanitizedMainArtist, batch, writeCount,
                 store, responses, unlinks, writes, commitOutcome,
                 sendThrows, rejected>>

\* The first handler from the AI's answer to docRef.set (lines 159-187)
FirstHandlerProcess(r, text, doc, sendOk) ==
  LET unwrapped == unwrapCodeFence(text)
      parses == JsonParses(unwrapped)
  IN  /\ rawText' = [rawText EXCEPT ![r] = text]
      /\ aiDoc' = [aiDoc EXCEPT ![r] = doc]
      /\ extractedText' = [extractedText EXCEPT ![r] = unwrapped]
      /\ extractedData' = [extractedData EXCEPT ![r] = IF parses THEN doc ELSE @]
      /\ writes' = [writes EXCEPT ![r] = IF parses THEN @ + 1 ELSE @]
      /\ Finish(r, IF parses THEN Suspends("docSet")
                   ELSE OuterSend(RespInvalidJson, sendOk))
      /\ UNCHANGED <<sanitizedMainArtist, batch, writeCount>>

\* The validating handler with `batch` (and its writeCount) declared once at
\* module level beside `db` instead of inside the handler: every request's
\* handler then holds the batch built last
ValidatingHandlerProcessSharedBatch(r, text, doc, sendOk, catchSendOk) ==
  LET unwrapped == unwrapCodeFence(text)
      parses == JsonParses(unwrapped)
      v == Validate(doc)
      out == IF parses THEN ValidatingOutcome(v, sendOk, catchSendOk)
             ELSE OuterSend(RespInvalidJson, sendOk)
  IN  /\ rawText' = [rawText EXCEPT ![r] = text]
      /\ aiDoc' = [aiDoc EXCEPT ![r] = doc]
      /\ extractedText' = [extractedText EXCEPT ![r] = unwrapped]
      /\ extractedData' = [extractedData EXCEPT ![r] = IF parses THEN doc ELSE @]
      /\ sanitizedMainArtist' =
           [sanitizedMainArtist EXCEPT ![r] = IF parses THEN v.key ELSE @]
      /\ batch' = IF parses THEN [q \in Requests |-> v.batch] ELSE batch
      /\ writeCount' =
           IF parses THEN [q \in Requests |-> v.writeCount] ELSE writeCount
      /\ writes' = [writes EXCEPT ![r] = IF out.next = "commit" THEN @ + 1 ELSE @]
      /\ Finish(r, out)

\* The validating handler from the AI's answer to batch.commit (lines 404-503)
ValidatingHandlerProcess(r, text, doc, sendOk, catchSendOk) ==
  LET unwrapped == unwrapCodeFence(text)
      parses == JsonParses(unwrapped)
      v == Validate(doc)
      out == IF parses THEN ValidatingOutcome(v, sendOk, catchSendOk)
             ELSE OuterSend(RespInvalidJson, sendOk)
  IN  /\ rawText' = [rawText EXCEPT ![r] = text]
      /\ aiDoc' = [aiDoc EXCEPT ![r] = doc]
      /\ extractedText' = [extractedText EXCEPT ![r] = unwrapped]
      /\ extractedData' = [extractedData EXCEPT ![r] = IF parses THEN doc ELSE @]
      /\ sanitizedMainArtist' =
           [sanitizedMainArtist EXCEPT ![r] = IF parses THEN v.key ELSE @]
      /\ batch' = [batch EXCEPT ![r] = IF parses THEN v.batch ELSE @]
      /\ writeCount' = [writeCount EXCEPT ![r] = IF parses THEN v.writeCount ELSE @]
      /\ writes' = [writes EXCEPT ![r] = IF out.next = "commit" THEN @ + 1 ELSE @]
      /\ Finish(r, out)

\* await modelInstance.generateContent(...) resolves with the AI's answer
GenerateContentResolvesFrom(r, answers) ==
  /\ pc[r] = "generateContent"
  /\ aiOutcome' = [aiOutcome EXCEPT ![r] = "ok"]
  /\ \E resp \in answers, sendOk \in BOOLEAN, catchSendOk \in BOOLEAN :
       IF handler[r] = "first"
       THEN FirstHandlerProcess(r, resp[1], resp[2], sendOk)
       ELSE ValidatingHandlerProcess(r, resp[1], resp[2], sendOk, catchSendOk)
  /\ UNCHANGED <<handler, hasFile, fileExists, store, unlinks, commitOutcome>>

GenerateContentResolves(r) == GenerateContentResolvesFrom(r, AIResponses)

\* await docRef.set(...) settles; a failure is logged and the handler goes
\* on (lines 185-195)
DocSetSettles(r) ==
  /\ pc[r] = "docSet"
  /\ \E ok \in BOOLEAN :
       /\ store' = IF ok
                   THEN SetDoc(store, AutoRef(store),
                               Obj([data |-> extractedData[r]]))
                   ELSE store
       /\ commitOutcome' = [commitOutcome EXCEPT ![r] = IF ok THEN "ok" ELSE "fail"]
  /\ pc' = [pc EXCEPT ![r] = "unlink"]
  /\ UNCHANGED <<handler, hasFile, fileExists, rawText, aiDoc, extractedText,
                 extractedData, sanitizedMainArtist, batch, writeCount, error,
                 responses, unlinks, writes, aiOutcome, sendThrows, rejected>>

\* await batch.commit() resolves (line 503)
CommitResolves(r) ==
  /\ pc[r] = "commit"
  /\ store' = ApplyBatch(store, batch[r], 1)
  /\ commitOutcome' = [commitOutcome EXCEPT ![r] = "ok"]
  /\ pc' = [pc EXCEPT ![r] = "unlink"]
  /\ UNCHANGED <<handler, hasFile, fileExists, rawText, aiDoc, extractedText,
                 extractedData, sanitizedMainArtist, batch, writeCount, error,
                 responses, unlinks, writes, aiOutcome, sendThrows, rejected>>

\* await batch.commit() rejects: the inner catch answers 500 (lines 523-529)
CommitRejects(r) ==
  /\ pc[r] = "commit"
  /\ commitOutcome' = [commitOutcome EXCEPT ![r] = "fail"]
  /\ \E sendOk \in BOOLEAN : Finish(r, InnerCatch(Err("FirestoreError"), 0, sendOk))
  /\ UNCHANGED <<handler, hasFile, fileExists, rawText, aiDoc, extractedText,
                 extractedData, sanitizedMainArtist, batch, writeCount,
                 store, unlinks, writes, aiOutcome>>

\* await fs.unlink(mediaPath) on the success path settles, then the 200
\* response is sent (lines 198-211 / 509-522)
UnlinkSettles(r) ==
  /\ pc[r] = "unlink"
  /\ \E ok \in UnlinkOutcomes(r), sendOk \in BOOLEAN, catchSendOk \in BOOLEAN :
       /\ Unlink(r, ok)
       /\ Finish(r, IF handler[r] = "first"
                    THEN OuterSend(RespSuccess(extractedData[r]), sendOk)
                    ELSE SuccessResponse(extractedData[r], ok, sendOk, catchSendOk))
  /\ UNCHANGED <<handler, hasFile, rawText, aiDoc, extractedText,
                 extractedData, sanitizedMainArtist, batch, writeCount,
                 store, writes, commitOutcome, aiOutcome>>

\* The outer catch: await fs.unlink(mediaPath) settles, then the 500
\* response is sent (lines 212-229 / 530-547)
CatchUnlinkSettles(r) ==
  /\ pc[r] = "catchUnlink"
  /\ \E ok \in UnlinkOutcomes(r), sendOk \in BOOLEAN :
       /\ Unlink(r, ok)
       /\ Finish(r, BareSend(RespProcessing(error[r]), sendOk))
  /\ UNCHANGED <<handler, hasFile, rawText, aiDoc, extractedText,
                 extractedData, sanitizedMainArtist, batch, writeCount,
                 store, writes, commitOutcome, aiOutcome>>

Next ==
  \E r \in Requests :
    \/ Receive(r)
    \/ UploadFileResolves(r)
    \/ UploadFileRejects(r)
    \/ GenerateContentResolves(r)
    \/ GenerateContentRejects(r)
    \/ DocSetSettles(r)
    \/ CommitResolves(r)
    \/ CommitRejects(r)
    \/ UnlinkSettles(r)
    \/ CatchUnlinkSettles(r)

Spec == Init /\ [][Next]_vars

(***************************************************************************)
(* Properties of the handler                                               *)
(***************************************************************************)
Range(seq) == {seq[i] : i \in DOMAIN seq}

\* the request was answered by JSON.parse succeeding on the AI's text
Parsed(r) == aiOutcome[r] = "ok" /\ JsonParses(extractedText[r])

\* the handler ended and none of its res.json calls threw
EndedCleanly(r) == pc[r] = "done" /\ sendThrows[r] = 0

\* all four required fields are present in the entry
HasAllFields(e) == \A f \in PatchFields : f \in DOMAIN e.v

\* the record passes validation: both required fields are present and
\* non-falsy and some patch entry has all four fields
PassesValidation(data) ==
  /\ data.t = "obj"
  /\ {"main_artist", "patch_list_table"} \subseteq DOMAIN data.v
  /\ data.v.main_artist \notin {Null, Str(<<>>)}
  /\ data.v.patch_list_table.t = "arr"
  /\ \E i \in DOMAIN data.v.patch_list_table.v :
       LET e == data.v.patch_list_table.v[i]
       IN  e.t = "obj" /\ HasAllFields(e)

\* C1: a persistence write (docRef.set or batch.commit) is attempted only for
\* a parsed record that passed validation.
C1_WriteOnlyAfterValidation ==
  \A r \in Requests : writes[r] > 0 => PassesValidation(extractedData[r])

\* C2: when a handler that received a file finishes, deletion of the temporary
\* file has been attempted exactly once.
C2_UnlinkExactlyOnce ==
  \A r \in Requests : (pc[r] = "done" /\ hasFile[r]) => Len(unlinks[r]) = 1

\* C3: whatever fs.unlink did, at most one response is sent, a request whose
\* write succeeded is answered 200 and a request whose AI call failed is
\* answered 500 'Error processing the PDF' (provided res.json did not throw).
C3_UnlinkFailureKeepsResponse ==
  \A r \in Requests :
    /\ Len(responses[r]) <= 1
    /\ (EndedCleanly(r) /\ commitOutcome[r] = "ok") =>
         responses[r] = <<RespSuccess(extractedData[r])>>
    /\ (EndedCleanly(r) /\ aiOutcome[r] \in {"uploadFail", "generateFail"}) =>
         /\ responses[r] = <<RespProcessing(error[r])>>
         /\ error[r] \in {Err("UploadError"), Err("GenerateError")}

\* the validating handler answered 200 although its only fs.unlink failed
C3_Witness ==
  \E r \in Requests :
    /\ EndedCleanly(r) /\ handler[r] = "validating"
    /\ unlinks[r] = <<"fail">>
    /\ commitOutcome[r] = "ok"
    /\ responses[r] = <<RespSuccess(extractedData[r])>>

\* the validating handler parsed a JSON object
ValidatedObject(r) ==
  handler[r] = "validating" /\ Parsed(r) /\ extractedData[r].t = "obj"

Field(r, k) == Get(extractedData[r], k)

\* C4 as stated: a record whose main_artist or patch_list_table is absent,
\* null, the empty string or the empty sequence is answered 400 'missing
\* required fields', and nothing is committed.
C4_FalsyIsMissing ==
  \A r \in Requests :
    (/\ ValidatedObject(r) /\ EndedCleanly(r)
     /\ \E k \in {"main_artist", "patch_list_table"} :
          Field(r, k) \in {Undefined, Null, Str(<<>>), Arr(<<>>)})
    => (responses[r] = <<RespMissing>> /\ writes[r] = 0)

\* C4 amended: a record whose main_artist or patch_list_table is absent, null
\* or the empty string is answered 400 'missing required fields'; an empty
\* patch_list_table next to a non-empty main_artist is not (the empty sequence
\* is not falsy); a null document is answered 500 'Error saving data to
\* Firestore'; nothing is committed in any of these cases.
C4_MissingRequiredField ==
  \A r \in Requests :
    (handler[r] = "validating" /\ Parsed(r) /\ EndedCleanly(r)) =>
      /\ (/\ extractedData[r].t = "obj"
          /\ \E k \in {"main_artist", "patch_list_table"} :
               Field(r, k) \in {Undefined, Null, Str(<<>>)})
         => (responses[r] = <<RespMissing>> /\ writes[r] = 0)
      /\ (/\ extractedData[r].t = "obj"
          /\ Field(r, "main_artist").t = "str"
          /\ Field(r, "main_artist").v # <<>>
          /\ Field(r, "patch_list_table") = Arr(<<>>))
         => (RespMissing \notin Range(responses[r]) /\ writes[r] = 0)
      /\ extractedData[r] = Null
         => (responses[r] = <<RespSaving(TypeError)>> /\ writes[r] = 0)

\* main_artist is null, patch_list_table is a well-formed non-empty table,
\* and the answer is 400 'missing required fields'
C4_Witness ==
  \E r \in Requests :
    /\ ValidatedObject(r) /\ EndedCleanly(r)
    /\ Field(r, "main_artist") = Null
    /\ Field(r, "patch_list_table") = Arr(<<EntryFull>>)
    /\ responses[r] = <<RespMissing>>

\* the entries of the table that have all four fields, in order
KeptEntries(table) ==
  SelectSeq(table, LAMBDA e : \A f \in PatchFields : Get(e, f) # Undefined)

\* the handler got past the required-field check with a patch_list_table and
\* a non-empty storage key
Filtered(r) ==
  /\ ValidatedObject(r)
  /\ Field(r, "main_artist").t = "str"
  /\ Field(r, "main_artist").v # <<>>
  /\ Field(r, "patch_list_table").t = "arr"
  /\ sanitizedMainArtist[r] # <<>>

\* C5: the batch holds exactly the entries with all four fields, in order and
\* unchanged; kept plus excluded is the table's length; an entry without them
\* is dropped and the rest is still processed (the handler goes on to commit
\* when an entry is kept).
C5_FilterKeepsCompleteEntries ==
  \A r \in Requests :
    Filtered(r) =>
      LET table == Field(r, "patch_list_table").v
          kept == KeptEntries(table)
      IN  /\ Len(batch[r]) = Len(kept)
          /\ \A i \in DOMAIN kept :
               batch[r][i].data = Obj([f \in PatchFields |-> kept[i].v[f]])
          /\ writeCount[r] = Len(kept)
          /\ writeCount[r] + (Len(table) - Len(kept)) = Len(table)
          /\ Len(kept) > 0 => writes[r] = 1

\* C6: a table none of whose entries has all four fields is answered 400 'No
\* valid patch entries' and nothing is committed; a table with such an entry
\* is never answered that way.
C6_NoValidEntries ==
  \A r \in Requests :
    (Filtered(r) /\ EndedCleanly(r)) =>
      LET kept == KeptEntries(Field(r, "patch_list_table").v)
      IN  /\ Len(kept) = 0 => (responses[r] = <<RespNoValid>> /\ writes[r] = 0)
          /\ Len(kept) > 0 => RespNoValid \notin Range(responses[r])

\* the documents of a collection
DocsIn(collection) == {p \in DOMAIN store : p[1] = collection}

\* C7: after the 200 response every kept entry is a document of the
\* collection named by the (non-empty) storage key, under the id
\* String(channelNumber) and with the entry's four fields, and the collection
\* holds writeCount documents.
C7_EveryValidEntryPersisted ==
  \A r \in Requests :
    (/\ handler[r] = "validating"
     /\ sanitizedMainArtist[r] # <<>>
     /\ \E resp \in Range(responses[r]) : resp.status = 200)
    => LET kept == KeptEntries(Field(r, "patch_list_table").v)
           key == sanitizedMainArtist[r]
       IN  /\ \A i \in DOMAIN kept :
                LET ref == <<key, StringOf(kept[i].v.channelNumber)>>
                IN  /\ ref \in DOMAIN store
                    /\ store[ref] = Obj([f \in PatchFields |-> kept[i].v[f]])
           /\ Cardinality(DocsIn(key)) = writeCount[r]

\* C8: whenever the batch commit is attempted, and whenever the 200 response
\* is sent, the storage key is not the empty string.
C8_StorageKeyNonEmpty ==
  \A r \in Requests :
    (/\ handler[r] = "validating"
     /\ \/ writes[r] > 0
        \/ \E resp \in Range(responses[r]) : resp.status = 200)
    => sanitizedMainArtist[r] # <<>>

(***************************************************************************)
(* The code-fence step on its own (lines 162-169 / 407-414)                *)
(***************************************************************************)
FenceAlphabet == {" ", "\n", "J", "x", Tick}

\* ```json, a newline, s, a newline, ```
Wrap(s) == FenceOpen \o <<"\n">> \o s \o <<"\n">> \o FenceClose

\* the wrapped texts, and texts around fence fragments that are near misses
FenceInputs ==
  LET mids == StringsUpTo(FenceAlphabet, MaxMid)
      openers == {<<>>, FenceOpen, FenceClose, <<"x">> \o FenceOpen}
      closers == {<<>>, FenceClose, FenceClose \o <<"\n">>, <<Tick, Tick>>}
  IN  {Wrap(s) : s \in mids}
        \cup {o \o s \o c : o \in openers, s \in mids, c \in closers}

InitUnwrap ==
  \E text \in FenceInputs : InitWith(OnlyFirst("codeFence"), text, Undefined)

\* const match = extractedText.match(codeBlockRegex); if (...) extractedText = ...
CodeFenceStep(r) ==
  /\ pc[r] = "codeFence"
  /\ extractedText' = [extractedText EXCEPT ![r] = unwrapCodeFence(rawText[r])]
  /\ pc' = [pc EXCEPT ![r] = "codeFenceDone"]
  /\ UNCHANGED <<handler, hasFile, fileExists, rawText, aiDoc, extractedData,
                 sanitizedMainArtist, batch, writeCount, error, store,
                 responses, unlinks, writes, commitOutcome, aiOutcome,
                 sendThrows, rejected>>

NextUnwrap == \E r \in Requests : CodeFenceStep(r)

SpecUnwrap == InitUnwrap /\ [][NextUnwrap]_vars

HasSuffix(s, p) == Len(s) >= Len(p) /\ SubSeq(s, Len(s) - Len(p) + 1, Len(s)) = p

\* text is Wrap(s) for some s
IsWrapped(text) ==
  /\ Len(text) >= Len(Wrap(<<>>))
  /\ HasPrefix(text, FenceOpen \o <<"\n">>)
  /\ HasSuffix(text, <<"\n">> \o FenceClose)

\* the s of a wrapped text
Inner(text) == SubSeq(text, Len(FenceOpen) + 2, Len(text) - Len(FenceClose) - 1)

\* the whole text is ```json, anything, ```
MatchesFencePattern(text) ==
  /\ Len(text) >= Len(FenceOpen) + Len(FenceClose)
  /\ HasPrefix(text, FenceOpen)
  /\ HasSuffix(text, FenceClose)

RECURSIVE TrimLeft(_)
TrimLeft(s) == IF s # <<>> /\ IsSpace(Head(s)) THEN TrimLeft(Tail(s)) ELSE s
RECURSIVE TrimRight(_)
TrimRight(s) ==
  IF s # <<>> /\ IsSpace(s[Len(s)]) THEN TrimRight(SubSeq(s, 1, Len(s) - 1))
  ELSE s
Trim(s) == TrimRight(TrimLeft(s))

\* C9 as stated: the step turns Wrap(s) into exactly s, and leaves a text that
\* does not match the fence pattern unchanged.
C9_UnwrapReturnsInner ==
  \A r \in Requests :
    pc[r] = "codeFenceDone" =>
      /\ IsWrapped(rawText[r]) => extractedText[r] = Inner(rawText[r])
      /\ ~MatchesFencePattern(rawText[r]) => extractedText[r] = rawText[r]

\* C9 amended: the step turns Wrap(s) into s without its leading and trailing
\* white space when that is not empty, and leaves Wrap(s) unchanged when it
\* is; a text that does not match the fence pattern is left unchanged.
C9_UnwrapReturnsTrimmedInner ==
  \A r \in Requests :
    pc[r] = "codeFenceDone" =>
      /\ IsWrapped(rawText[r]) =>
           extractedText[r] = IF Trim(Inner(rawText[r])) # <<>>
                              THEN Trim(Inner(rawText[r]))
                              ELSE rawText[r]
      /\ ~MatchesFencePattern(rawText[r]) => extractedText[r] = rawText[r]

\* a wrapped s with white space on both sides came out trimmed
C9_Witness ==
  \E r \in Requests :
    /\ pc[r] = "codeFenceDone"
    /\ rawText[r] = Wrap(<<" ", "J", "\n">>)
    /\ extractedText[r] = <<"J">>

(***************************************************************************)
(* The storage key on its own (lines 446-449)                              *)
(***************************************************************************)
ArtistAlphabet == {"a", "7", "_", " ", "\n", "&"}

FooBarBaz ==
  <<"F","o","o"," ","B","a","r"," ","&"," ","B","a","z","!","!">>

ArtistInputs == StringsUpTo(ArtistAlphabet, MaxArtistLen) \cup {FooBarBaz}

InitSanitize ==
  \E s \in ArtistInputs :
    InitWith(OnlyFirst("sanitize"), <<>>, MkDoc(Str(s), Undefined))

\* const sanitizedMainArtist = main_artist.replace(..).replace(..)
SanitizeStep(r) ==
  /\ pc[r] = "sanitize"
  /\ sanitizedMainArtist' =
       [sanitizedMainArtist EXCEPT
          ![r] = sanitize(Get(extractedData[r], "main_artist").v)]
  /\ pc' = [pc EXCEPT ![r] = "sanitizeDone"]
  /\ UNCHANGED <<handler, hasFile, fileExists, rawText, aiDoc, extractedText,
                 extractedData, batch, writeCount, error, store, responses,
                 unlinks, writes, commitOutcome, aiOutcome, sendThrows,
                 rejected>>

NextSanitize == \E r \in Requests : SanitizeStep(r)

SpecSanitize == InitSanitize /\ [][NextSanitize]_vars

\* what the character at position i of s contributes to the key: a white
\* space that starts a run gives "_", any other white space nothing, a
\* letter, digit or underscore itself, anything else nothing
RECURSIVE KeyFrom(_, _)
KeyFrom(s, i) ==
  IF i > Len(s) THEN <<>>
  ELSE LET piece ==
             IF IsSpace(s[i])
             THEN IF i = 1 \/ ~IsSpace(s[i - 1]) THEN <<"_">> ELSE <<>>
             ELSE IF IsWordChar(s[i]) THEN <<s[i]>> ELSE <<>>
       IN  piece \o KeyFrom(s, i + 1)

\* C10: the storage key is main_artist with each maximal run of white space
\* turned into one underscore and every other character outside [A-Za-z0-9_]
\* deleted; it holds only letters, digits and underscores; "Foo Bar & Baz!!"
\* gives "Foo_Bar__Baz"; a string of disallowed characters gives "".
C10_StorageKeySanitized ==
  \A r \in Requests :
    pc[r] = "sanitizeDone" =>
      LET s == Get(extractedData[r], "main_artist").v
          key == sanitizedMainArtist[r]
      IN  /\ key = KeyFrom(s, 1)
          /\ \A i \in DOMAIN key : IsWordChar(key[i])
          /\ s = FooBarBaz =>
               key = <<"F","o","o","_","B","a","r","_","_","B","a","z">>
          /\ (\A i \in DOMAIN s : ~IsWordChar(s[i]) /\ ~IsSpace(s[i])) => key = <<>>

\* a run of two white-space characters became one underscore
C10_Witness ==
  \E r \in Requests :
    /\ pc[r] = "sanitizeDone"
    /\ Get(extractedData[r], "main_artist").v = <<"a", " ", "\n">>
    /\ sanitizedMainArtist[r] = <<"a", "_">>

(***************************************************************************)
(* Two requests in flight at once                                          *)
(***************************************************************************)
\* The answers the AI service gives while two requests are handled: two
\* tables that pass validation and name the same collection and the same
\* document id, and one answer for each way a handler stops early
ConcurrentAnswers ==
  { <<TextFenced, MkDoc(Str(ArtistFooB), Arr(<<EntryFull>>))>>,
    <<TextBare, MkDoc(Str(ArtistFooB), Arr(<<EntrySameId, EntryPartial>>))>>,
    <<TextBare, MkDoc(Str(ArtistFooB), Arr(<<EntryPartial>>))>>,
    <<TextBare, MkDoc(Null, Arr(<<EntryFull>>))>>,
    <<TextBare, Null>>,
    <<TextNotJson, Null>> }

\* both requests have arrived and neither handler has run yet
InitConcurrent == InitWith([r \in Requests |-> "new"], <<>>, Undefined)

\* Node runs one stretch of one handler at a time; which request's pending
\* await settles next is up to the event loop
NextConcurrent ==
  \E r \in Requests :
    \/ Receive(r)
    \/ UploadFileResolves(r)
    \/ UploadFileRejects(r)
    \/ GenerateContentResolvesFrom(r, ConcurrentAnswers)
    \/ GenerateContentRejects(r)
    \/ DocSetSettles(r)
    \/ CommitResolves(r)
    \/ CommitRejects(r)
    \/ UnlinkSettles(r)
    \/ CatchUnlinkSettles(r)

SpecConcurrent == InitConcurrent /\ [][NextConcurrent]_vars

\* What request r met from outside: the handler it reached, its upload, the
\* AI service's outcome and answer, Firestore's outcome, the outcomes of its
\* file deletions and how many of its res.json calls threw
InputsOf(r) ==
  <<handler[r], hasFile[r], aiOutcome[r], rawText[r], aiDoc[r],
    commitOutcome[r], unlinks[r], sendThrows[r]>>

\* The variables the handler of request r writes
LocalsOf(r) ==
  <<pc[r], fileExists[r], extractedText[r], extractedData[r],
    sanitizedMainArtist[r], batch[r], writeCount[r], error[r], responses[r],
    writes[r], rejected[r]>>

\* The record, storage key, batch and writeCount that request r's own AI
\* answer determines when the request is handled with no other in flight
AloneParses(r) == aiOutcome[r] = "ok" /\ JsonParses(unwrapCodeFence(rawText[r]))

AloneBuilt(r) ==
  IF AloneParses(r) /\ handler[r] = "validating"
  THEN Validate(aiDoc[r])
  ELSE [end |-> "none", key |-> <<>>, batch |-> <<>>, writeCount |-> 0]

\* The res.json calls request r makes one after the other when each one
\* before it threw, as its own inputs determine them
AloneSends(r) ==
  LET fromInner(resp) == <<resp, RespSaving(SendError), RespProcessing(SendError)>>
      fromOuter(resp) == <<resp, RespProcessing(SendError)>>
      v == AloneBuilt(r)
  IN  CASE pc[r] = "new" -> <<>>
        [] pc[r] # "new" /\ ~hasFile[r] -> <<RespNoFile>>
        [] aiOutcome[r] = "uploadFail" -> <<RespProcessing(Err("UploadError"))>>
        [] aiOutcome[r] = "generateFail" -> <<RespProcessing(Err("GenerateError"))>>
        [] aiOutcome[r] = "ok" /\ ~AloneParses(r) -> fromOuter(RespInvalidJson)
        [] AloneParses(r) /\ handler[r] = "first" -> fromOuter(RespSuccess(aiDoc[r]))
        [] AloneParses(r) /\ v.end = "threw" -> fromOuter(RespSaving(TypeError))
        [] AloneParses(r) /\ v.end = "missing" -> fromInner(RespMissing)
        [] AloneParses(r) /\ v.end = "built" /\ v.writeCount = 0 ->
             fromInner(RespNoValid)
        [] AloneParses(r) /\ v.end = "built" /\ v.writeCount > 0
             /\ commitOutcome[r] = "fail" ->
             fromOuter(RespSaving(Err("FirestoreError")))
        [] AloneParses(r) /\ v.end = "built" /\ v.writeCount > 0
             /\ commitOutcome[r] = "ok" -> fromInner(RespSuccess(aiDoc[r]))
        [] OTHER -> <<>>

\* the response, if any, that the ended request r has sent
AloneResponses(r) ==
  IF sendThrows[r] < Len(AloneSends(r))
  THEN <<AloneSends(r)[sendThrows[r] + 1]>>
  ELSE <<>>

\* every variable written for request r has the value r's own inputs give it
DeterminedByOwnInputs(r) ==
  /\ batch[r] = AloneBuilt(r).batch
  /\ writeCount[r] = AloneBuilt(r).writeCount
  /\ sanitizedMainArtist[r] = AloneBuilt(r).key
  /\ extractedText[r] =
       (IF aiOutcome[r] = "ok" THEN unwrapCodeFence(rawText[r]) ELSE <<>>)
  /\ extractedData[r] = (IF AloneParses(r) THEN aiDoc[r] ELSE Undefined)
  /\ pc[r] = "done" => responses[r] = AloneResponses(r)
  /\ pc[r] # "done" => responses[r] = <<>>

\* a stretch of one handler leaves what belongs to the other request alone
LeavesOthersAlone ==
  \A r \in Requests :
    pc'[r] = pc[r] => LocalsOf(r)' = LocalsOf(r) /\ InputsOf(r)' = InputsOf(r)

\* C11: however the stretches of two concurrent requests interleave at their
\* awaits, each request's batch, writeCount, storage key, extracted text,
\* parsed record and response are the ones its own inputs determine (the
\* same as when it is handled alone), and no stretch of one request changes
\* a variable of the other.
C11_RequestsIsolated ==
  /\ [](\A r \in Requests : DeterminedByOwnInputs(r))
  /\ [][LeavesOthersAlone]_vars

\* both handlers are suspended between awaits at once, each holding a
\* non-empty batch of its own for the same collection and document id, and
\* the first has already committed its batch
C11_Witness ==
  /\ pc["r1"] = "unlink"
  /\ pc["r2"] = "commit"
  /\ handler["r1"] = "validating"
  /\ batch["r1"] # <<>>
  /\ batch["r2"] # <<>>
  /\ batch["r1"] # batch["r2"]
  /\ sanitizedMainArtist["r1"] = sanitizedMainArtist["r2"]
  /\ extractedData["r1"] # extractedData["r2"]

====
